---- MODULE Spec2Model ----
(***************************************************************************)
(* A model of the SEO gap analyzer: the text helpers (utils.py), the       *)
(* heading bucket normalizer (normalize.py), the page extractor            *)
(* (extractor.py) and the batch run of the Streamlit script (app.py).      *)
(*                                                                         *)
(* Texts are TLA+ strings; Len, SubSeq and \o act on them character by     *)
(* character, so the helpers below are computed the way the Python code    *)
(* computes them.                                                          *)
(***************************************************************************)
EXTENDS Integers, Sequences, FiniteSets, TLC

VARIABLES
    heading,          \* normalize.py: the heading handed to the normalizer
    bucket,           \* normalize.py: the bucket it returned ("" = not run yet)
    url,              \* extractor.py: the page URL (scheme, netloc, path)
    parsed,           \* extractor.py: the tree BeautifulSoup(html) built
    dom,              \* extractor.py: the tree as _remove_noise left it
    pc,               \* extractor.py: position inside extract_page
    sections,         \* extractor.py: result of extract_sections_by_headings
    schema_jsonld,    \* extractor.py: result of extract_schema_jsonld
    internal_links,   \* extractor.py: result of extract_internal_links
    faq_dom,          \* extractor.py: result of detect_faq_pairs
    faq_considered,   \* extractor.py: the containers detect_faq_pairs looped over
    runs,             \* number of _remove_noise runs applied to dom
    prev_dom,         \* the tree before the latest _remove_noise run
    raised,           \* whether the latest _remove_noise run raised
    app_pc,           \* app.py: position inside the `if run:` block
    clock,            \* time.time(), in half seconds
    min_delay,        \* app.py: the "Polite crawl delay" slider, in half seconds
    n_comp,           \* app.py: len(comp_urls)
    comp_i,           \* app.py: the competitor the for loop is at
    last_ts,          \* app.py: last_ts
    outcome,          \* per page (0: yours, k: competitor k): "none", "ok", "failed"
    attempts,         \* per page: the calls of extract_page made for it
    analysed,         \* the pages handed to the analysis that follows the loop
    fetches,          \* the requests sent so far
    ts_updates,       \* the assignments to last_ts made so far
    prev_ts, cur_ts,  \* last_ts as the previous and the latest request were sent
    prev_at, cur_at,  \* the time the previous and the latest request were sent
    elapsed, slept,   \* latest rate_limit_sleep: dt it measured, time it blocked
    first_slept,      \* the time the first rate_limit_sleep of the run blocked
    clean_dom,        \* extractor.py: the tree as extract_page line 182 left it
    extractions,      \* the extractor calls made on the tree since then
    sec_runs,         \* the results of the extract_sections_by_headings calls
    faq_runs,         \* the results of the detect_faq_pairs calls
    yours,            \* analyze.py: identify_gaps' argument `yours`
    competitors,      \* analyze.py: identify_gaps' argument `competitors`
    gap_pc,           \* analyze.py: position inside identify_gaps
    your_sum,         \* analyze.py: your_sum
    comp_sums,        \* analyze.py: comp_sums
    comp_avg,         \* analyze.py: comp_avg
    rows              \* analyze.py: rows

normVars == <<heading, bucket>>
pageVars == <<url, parsed, dom, pc, sections, schema_jsonld, internal_links,
              faq_dom, faq_considered, runs, prev_dom, raised>>
appVars == <<app_pc, clock, min_delay, n_comp, comp_i, last_ts, outcome, attempts,
             analysed, fetches, ts_updates, prev_ts, cur_ts, prev_at, cur_at,
             elapsed, slept, first_slept>>
rerunVars == <<clean_dom, extractions, sec_runs, faq_runs>>
gapVars == <<yours, competitors, gap_pc, your_sum, comp_sums, comp_avg, rows>>

-----------------------------------------------------------------------------
(* utils.py: text helpers                                                  *)

\* the characters Python's \s and str.strip() treat as whitespace (ASCII part)
IsSpace(c) == c \in {" ", "\t", "\n", "\r"}

UpperChars == "ABCDEFGHIJKLMNOPQRSTUVWXYZ"
LowerChars == "abcdefghijklmnopqrstuvwxyz"

\* the lower-case letter of each upper-case letter
LowerTable ==
    [c \in {SubSeq(UpperChars, i, i) : i \in 1..Len(UpperChars)} |->
        SubSeq(LowerChars,
               CHOOSE k \in 1..Len(UpperChars) : SubSeq(UpperChars, k, k) = c,
               CHOOSE k \in 1..Len(UpperChars) : SubSeq(UpperChars, k, k) = c)]

LowerChar(c) == IF c \in DOMAIN LowerTable THEN LowerTable[c] ELSE c

RECURSIVE LowerRange(_, _, _)
\* the characters lo..hi of s lowercased (halving keeps the recursion shallow)
LowerRange(s, lo, hi) ==
    IF lo > hi THEN ""
    ELSE IF lo = hi THEN LowerChar(SubSeq(s, lo, lo))
    ELSE LET mid == (lo + hi) \div 2
         IN  LowerRange(s, lo, mid) \o LowerRange(s, mid + 1, hi)

\* str.lower()
Lower(s) == LowerRange(s, 1, Len(s))

\* what re.sub(r"\s+", " ", s) leaves of the character at position i: a
\* whitespace run becomes one space, written where the run starts
CollapsedAt(s, i) ==
    IF ~IsSpace(SubSeq(s, i, i)) THEN SubSeq(s, i, i)
    ELSE IF i > 1 /\ IsSpace(SubSeq(s, i - 1, i - 1)) THEN ""
    ELSE " "

RECURSIVE CollapseRange(_, _, _)
CollapseRange(s, lo, hi) ==
    IF lo > hi THEN ""
    ELSE IF lo = hi THEN CollapsedAt(s, lo)
    ELSE LET mid == (lo + hi) \div 2
         IN  CollapseRange(s, lo, mid) \o CollapseRange(s, mid + 1, hi)

\* re.sub(r"\s+", " ", s)
CollapseWs(s) == CollapseRange(s, 1, Len(s))

RECURSIVE LStrip(_)
LStrip(s) ==
    IF Len(s) > 0 /\ IsSpace(SubSeq(s, 1, 1)) THEN LStrip(SubSeq(s, 2, Len(s))) ELSE s

RECURSIVE RStrip(_)
RStrip(s) ==
    IF Len(s) > 0 /\ IsSpace(SubSeq(s, Len(s), Len(s)))
    THEN RStrip(SubSeq(s, 1, Len(s) - 1)) ELSE s

\* str.strip()
Strip(s) == RStrip(LStrip(s))

\* utils.clean_text
clean_text(s) == IF s = "" THEN "" ELSE Strip(CollapseWs(s))

\* utils.normalize_ws_lower
normalize_ws_lower(s) == Lower(clean_text(s))

\* Python's `sub in s`, and re.search of a regex without metacharacters
Contains(s, sub) ==
    \E i \in 1..(Len(s) - Len(sub) + 1) : SubSeq(s, i, i + Len(sub) - 1) = sub

RECURSIVE JoinFrom(_, _, _)
JoinFrom(sep, parts, i) ==
    IF i > Len(parts) THEN ""
    ELSE IF i = Len(parts) THEN parts[i]
    ELSE parts[i] \o sep \o JoinFrom(sep, parts, i + 1)

\* sep.join(parts)
Join(sep, parts) == JoinFrom(sep, parts, 1)

\* s[:n]
Prefix(s, n) == IF Len(s) <= n THEN s ELSE SubSeq(s, 1, n)

\* seq[:n] of a list
Take(seq, n) == IF Len(seq) <= n THEN seq ELSE SubSeq(seq, 1, n)

-----------------------------------------------------------------------------
(* normalize.py: the bucket normalizer                                     *)

\* Each regex of SECTION_SYNONYMS is given by the finite set of literal
\* strings it matches as a whole (its alternations and optional parts
\* expanded); re.search(p, h) holds iff one of them is a substring of h.
SECTION_SYNONYMS == <<
    [bucket |-> "about_team", patterns |-> <<
        {"meet the doctor", "meet the dentist", "meet the dentists", "meet the team",
         "meet our doctor", "meet our dentist", "meet our dentists", "meet our team"},
        {"about team", "about the team"},
        {"our team"},
        {"who we are"} >>],
    [bucket |-> "testimonials", patterns |-> <<
        {"testimonials"}, {"reviews"}, {"patient stories"}, {"client stories"},
        {"what clients say", "what patients say"} >>],
    [bucket |-> "services", patterns |-> <<
        {"services"}, {"what we offer"}, {"treatments"}, {"solutions"},
        {"service area", "service areas"} >>],
    [bucket |-> "faq", patterns |-> <<
        {"faq"}, {"frequently asked"}, {"questions"} >>],
    [bucket |-> "pricing", patterns |-> <<
        {"pricing"}, {"fees"}, {"cost"}, {"plans"} >>],
    [bucket |-> "why_choose_us", patterns |-> <<
        {"why choose us"}, {"why us"}, {"our difference"}, {"what makes us"} >>],
    [bucket |-> "contact", patterns |-> <<
        {"contact"}, {"book now", "book online"}, {"get in touch"},
        {"request quote", "request a quote"} >>]
>>

\* re.search(p, h)
re_search(p, h) == \E lit \in p : Contains(h, lit)

RECURSIVE MatchFrom(_, _, _, _)
\* the two nested loops of normalize_heading_to_bucket, from rule r, pattern k
MatchFrom(rules, h, r, k) ==
    IF r > Len(rules) THEN "other"
    ELSE IF k > Len(rules[r].patterns) THEN MatchFrom(rules, h, r + 1, 1)
    ELSE IF re_search(rules[r].patterns[k], h) THEN rules[r].bucket
    ELSE MatchFrom(rules, h, r, k + 1)

RECURSIVE LastMatchFrom(_, _, _, _)
\* a variant that keeps looping after a match and returns the last bucket hit
LastMatchFrom(rules, h, r, found) ==
    IF r > Len(rules) THEN found
    ELSE LastMatchFrom(rules, h, r + 1,
            IF \E k \in 1..Len(rules[r].patterns) : re_search(rules[r].patterns[k], h)
            THEN rules[r].bucket ELSE found)

normalize_heading_last_match(hd) ==
    LastMatchFrom(SECTION_SYNONYMS, normalize_ws_lower(hd), 1, "other")

\* a variant that forgets to lowercase the heading
normalize_heading_case_sensitive(hd) ==
    MatchFrom(SECTION_SYNONYMS, clean_text(hd), 1, 1)

normalize_heading_to_bucket(hd) ==
    LET h == normalize_ws_lower(hd) IN MatchFrom(SECTION_SYNONYMS, h, 1, 1)

-----------------------------------------------------------------------------
(* extractor.py: the parsed tree                                           *)
(*                                                                         *)
(* A tree is the sequence of its nodes in document order (pre-order); a    *)
(* node names its parent by position (0: the BeautifulSoup object itself). *)
(* A node is an element (a bs4 Tag) whose `text` is the string it starts   *)
(* with, or a bare string between elements (tag "#text").  `class` is the  *)
(* class list joined by single spaces, as " ".join(tag.get("class"))       *)
(* yields it; `href` is the attribute split into the parts urlparse finds  *)
(* (all empty: no href, or an empty one).                                  *)

NoHref == [scheme |-> "", netloc |-> "", path |-> ""]

Node(tag, parent, text) ==
    [tag |-> tag, parent |-> parent, text |-> text, style |-> "", class |-> "",
     id |-> "", type |-> "", href |-> NoHref]

IsTag(n) == n.tag # "#text"

RECURSIVE SubtreeEndFrom(_, _, _)
SubtreeEndFrom(d, i, k) ==
    IF k + 1 <= Len(d) /\ d[k + 1].parent >= i THEN SubtreeEndFrom(d, i, k + 1) ELSE k

\* position of the last descendant of node i (i itself when it has none)
SubtreeEnd(d, i) == SubtreeEndFrom(d, i, i)

\* .next_sibling: the position of the node after i under the same parent, 0 if none
NextSibling(d, i) ==
    LET k == SubtreeEnd(d, i) + 1
    IN  IF k <= Len(d) /\ d[k].parent = d[i].parent THEN k ELSE 0

RECURSIVE NextTagSibling(_, _)
\* .find_next_sibling(): the next sibling that is a Tag, 0 if none
NextTagSibling(d, i) ==
    LET k == NextSibling(d, i)
    IN  IF k = 0 THEN 0 ELSE IF IsTag(d[k]) THEN k ELSE NextTagSibling(d, k)

\* positions, in document order, of the nodes of lo..hi that the filter
\* `keep` (a Boolean for each position of lo..hi) lets through
SelectRange(d, lo, hi, keep) ==
    SelectSeq([k \in 1..(hi - lo + 1) |-> lo + k - 1], LAMBDA j : keep[j])

\* node.get_text(" ", strip=True): the stripped non-empty strings of the node
\* and of its descendants, in document order, joined by one space
GetText(d, i) ==
    LET idx == SelectRange(d, i, SubtreeEnd(d, i),
                           [j \in i..SubtreeEnd(d, i) |-> Strip(d[j].text) # ""])
    IN  Join(" ", [k \in 1..Len(idx) |-> Strip(d[idx[k]].text)])

\* the tree without the nodes at the positions `gone` (a set closed under
\* descendants), parents renumbered
RemoveNodes(d, gone) ==
    LET keep   == SelectSeq([k \in 1..Len(d) |-> k], LAMBDA j : j \notin gone)
        new(j) == IF j = 0 THEN 0 ELSE Cardinality({k \in 1..j : k \notin gone})
    IN  [k \in 1..Len(keep) |-> [d[keep[k]] EXCEPT !.parent = new(d[keep[k]].parent)]]

-----------------------------------------------------------------------------
(* extractor.py: _remove_noise                                             *)

NoiseTags == {"script", "style", "noscript", "svg", "canvas"}

\* "display:none" in style or "visibility:hidden" in style, style lowercased
IsHiddenStyle(style) ==
    LET st == Lower(style)
    IN  Contains(st, "display:none") \/ Contains(st, "visibility:hidden")

\* first loop: every tag soup([...]) lists is decomposed, its subtree with it
NoiseSubtrees(d) ==
    UNION { i..SubtreeEnd(d, i) : i \in {j \in 1..Len(d) : d[j].tag \in NoiseTags} }

RECURSIVE HiddenLoop(_, _, _)
\* second loop, over the list find_all(True) built before the loop started,
\* entered at position i with the positions `gone` decomposed so far.
\* decompose() clears the __dict__ of the tag and of everything below it, so a
\* tag that is still in the list but sits under a tag decomposed earlier has
\* no attrs any more: tag.get("style") evaluates None.get(...) and raises
\* AttributeError, which ends _remove_noise with the later tags unvisited.
\* The loop body does nothing for a live tag that is not hidden, so the loop
\* is advanced to the next tag that is decomposed or hidden.
HiddenLoop(d, i, gone) ==
    LET act == {j \in i..Len(d) :
                   IsTag(d[j]) /\ (j \in gone \/ IsHiddenStyle(d[j].style))}
    IN  IF act = {} THEN [gone |-> gone, raised |-> FALSE]
        ELSE LET j == CHOOSE x \in act : \A y \in act : x <= y
             IN  IF j \in gone THEN [gone |-> gone, raised |-> TRUE]
                 ELSE HiddenLoop(d, j + 1, gone \cup (j..SubtreeEnd(d, j)))

\* the tree _remove_noise leaves, and whether it raised
remove_noise(d) ==
    LET d1 == RemoveNodes(d, NoiseSubtrees(d))
        r  == HiddenLoop(d1, 1, {})
    IN  [dom |-> RemoveNodes(d1, r.gone), raised |-> r.raised]

-----------------------------------------------------------------------------
(* extractor.py: extract_sections_by_headings                              *)

MaxSections == 80
ThinTextLen == 60
ThinHeadingLen == 10
MinPartLen == 20

\* re.match(r"^h[1-3]$", name, re.I)
IsMajorHeading(tag) == Lower(tag) \in {"h1", "h2", "h3"}

\* int(h.name[1])
LevelOf(tag) == CHOOSE n \in 0..9 : SubSeq("0123456789", n + 1, n + 1) = SubSeq(tag, 2, 2)

RECURSIVE BodyParts(_, _)
\* the loop over h.next_siblings, entered at sibling k (0: no sibling left)
BodyParts(d, k) ==
    IF k = 0 THEN <<>>
    ELSE IF IsTag(d[k]) /\ IsMajorHeading(d[k].tag) THEN <<>>
    ELSE LET txt == clean_text(GetText(d, k))
         IN  (IF txt # "" /\ Len(txt) > MinPartLen THEN <<txt>> ELSE <<>>)
             \o BodyParts(d, NextSibling(d, k))

RECURSIVE BodyPartsNoStop(_, _)
\* a variant that does not stop at the next major heading
BodyPartsNoStop(d, k) ==
    IF k = 0 THEN <<>>
    ELSE LET txt == clean_text(GetText(d, k))
         IN  (IF txt # "" /\ Len(txt) > MinPartLen /\ ~IsMajorHeading(d[k].tag)
              THEN <<txt>> ELSE <<>>)
             \o BodyPartsNoStop(d, NextSibling(d, k))

SectionBodyNoStop(d, h) == clean_text(Join(" ", BodyPartsNoStop(d, NextSibling(d, h))))

\* body = clean_text(" ".join(content_parts)) for the heading at position h
SectionBody(d, h) == clean_text(Join(" ", BodyParts(d, NextSibling(d, h))))

\* heading_tags = soup.find_all(re.compile("^h[1-3]$", re.I))
HeadingTags(d) == SelectRange(d, 1, Len(d), [j \in 1..Len(d) |-> IsTag(d[j]) /\ IsMajorHeading(d[j].tag)])

\* the section appended for heading h (the caller skips an empty title)
SectionOf(d, h) ==
    [level |-> LevelOf(d[h].tag), heading |-> clean_text(GetText(d, h)),
     text |-> SectionBody(d, h)]

\* the for loop over heading_tags: a heading with an empty title is skipped,
\* every other one appends its section
AllSections(d) ==
    LET titled == SelectSeq(HeadingTags(d), LAMBDA h : clean_text(GetText(d, h)) # "")
    IN  [k \in 1..Len(titled) |-> SectionOf(d, titled[k])]

\* len(s["text"]) > 60 or len(s["heading"]) > 10
NotThin(s) == Len(s.text) > ThinTextLen \/ Len(s.heading) > ThinHeadingLen

\* a variant that caps the list before it filters the thin sections
extract_sections_cap_first(d) ==
    SelectSeq(Take(AllSections(d), MaxSections), NotThin)

extract_sections_by_headings(d) ==
    Take(SelectSeq(AllSections(d), NotThin), MaxSections)

-----------------------------------------------------------------------------
(* extractor.py: extract_schema_jsonld                                     *)

\* the script texts json.loads accepts, among those the pages below carry
ValidJson == {"{\"@type\": \"FAQPage\"}", "{\"@type\": \"Organization\"}"}

\* json.loads(txt), or the fallback record when it raises
JsonOrRaw(txt) ==
    IF txt \in ValidJson THEN [kind |-> "parsed", value |-> txt]
    ELSE [kind |-> "raw", value |-> txt]

\* soup.find_all("script", attrs={"type": "application/ld+json"})
IsJsonLdScript(n) == n.tag = "script" /\ n.type = "application/ld+json"

RECURSIVE SchemasFrom(_, _, _)
SchemasFrom(d, scripts, k) ==
    IF k > Len(scripts) THEN <<>>
    ELSE LET txt == GetText(d, scripts[k])
         IN  (IF txt = "" THEN <<>> ELSE <<JsonOrRaw(txt)>>)
             \o SchemasFrom(d, scripts, k + 1)

extract_schema_jsonld(d) ==
    SchemasFrom(d, SelectRange(d, 1, Len(d), [j \in 1..Len(d) |-> IsJsonLdScript(d[j])]), 1)

-----------------------------------------------------------------------------
(* utils.py / extractor.py: safe_urljoin and extract_internal_links        *)

\* urlunparse of the three parts kept here
UrlStr(u) ==
    (IF u.scheme # "" THEN u.scheme \o ":" ELSE "")
    \o (IF u.netloc # "" THEN "//" \o u.netloc ELSE "")
    \o u.path

RECURSIVE DirOf(_)
\* the base path up to and with its last "/" ("/" when it has none)
DirOf(path) ==
    IF path = "" THEN "/"
    ELSE IF SubSeq(path, Len(path), Len(path)) = "/" THEN path
    ELSE DirOf(SubSeq(path, 1, Len(path) - 1))

\* the schemes urllib lists in uses_relative and uses_netloc, as far as used here
UsesRelative == {"http", "https", "ftp", ""}

\* urljoin(base, href) on parsed parts (no dot segments, query or fragment);
\* urlparse lowercases the scheme and takes the base's when href has none
urljoin(base, href) ==
    LET scheme == IF href.scheme = "" THEN base.scheme ELSE Lower(href.scheme)
    IN  IF UrlStr(href) = "" THEN base
        ELSE IF scheme # base.scheme \/ scheme \notin UsesRelative THEN href
        ELSE IF href.netloc # ""
             THEN [scheme |-> scheme, netloc |-> href.netloc, path |-> href.path]
        ELSE IF href.path = ""
             THEN [scheme |-> scheme, netloc |-> base.netloc, path |-> base.path]
        ELSE IF SubSeq(href.path, 1, 1) = "/"
             THEN [scheme |-> scheme, netloc |-> base.netloc, path |-> href.path]
        ELSE [scheme |-> scheme, netloc |-> base.netloc,
              path |-> DirOf(base.path) \o href.path]

\* urljoin raises on none of the hrefs modelled, so the except branch is idle
safe_urljoin(base, href) == urljoin(base, href)

RECURSIVE LinksFrom(_, _, _, _)
\* the loop over soup.find_all("a"), from its k-th element
LinksFrom(d, base, as, k) ==
    IF k > Len(as) THEN <<>>
    ELSE LET href == d[as[k]].href
             full == safe_urljoin(base, href)
         IN  IF UrlStr(href) = "" THEN LinksFrom(d, base, as, k + 1)
             ELSE IF Lower(full.netloc) = Lower(base.netloc)
                  THEN <<[url |-> UrlStr(full), anchor |-> clean_text(GetText(d, as[k]))]>>
                       \o LinksFrom(d, base, as, k + 1)
             ELSE LinksFrom(d, base, as, k + 1)

RECURSIVE LinksUnresolvedFrom(_, _, _, _)
\* a variant that compares the host of the raw href instead of the resolved URL
LinksUnresolvedFrom(d, base, as, k) ==
    IF k > Len(as) THEN <<>>
    ELSE LET href == d[as[k]].href
             full == safe_urljoin(base, href)
         IN  IF UrlStr(href) = "" THEN LinksUnresolvedFrom(d, base, as, k + 1)
             ELSE IF Lower(href.netloc) = Lower(base.netloc)
                  THEN <<[url |-> UrlStr(full), anchor |-> clean_text(GetText(d, as[k]))]>>
                       \o LinksUnresolvedFrom(d, base, as, k + 1)
             ELSE LinksUnresolvedFrom(d, base, as, k + 1)

extract_internal_links_unresolved(d, base) ==
    LinksUnresolvedFrom(d, base, SelectRange(d, 1, Len(d), [j \in 1..Len(d) |-> d[j].tag = "a"]), 1)

extract_internal_links(d, base) ==
    LinksFrom(d, base, SelectRange(d, 1, Len(d), [j \in 1..Len(d) |-> d[j].tag = "a"]), 1)

-----------------------------------------------------------------------------
(* extractor.py: detect_faq_pairs                                          *)

MaxFaqContainers == 5
MaxFaqPairs == 30
MinQuestionLen == 6
MinAnswerLen == 20
FaqKeyLen == 60

\* "faq" in the class list or in the id, lowercased
IsFaqContainer(n) ==
    IsTag(n) /\ (Contains(Lower(n.class), "faq") \/ Contains(Lower(n.id), "faq"))

\* the fallback: a section or div classed accordion, toggle or collapse
IsAccordion(n) ==
    /\ n.tag \in {"section", "div"}
    /\ \E k \in {"accordion", "toggle", "collapse"} : Contains(Lower(n.class), k)

FaqCandidates(d) ==
    LET c == SelectRange(d, 1, Len(d), [j \in 1..Len(d) |-> IsFaqContainer(d[j])])
    IN  IF c # <<>> THEN c ELSE SelectRange(d, 1, Len(d), [j \in 1..Len(d) |-> IsAccordion(d[j])])

\* c.find_all(["h3", "h4", "button"]): among the descendants of c
QuestionTags(d, c) ==
    SelectRange(d, c + 1, SubtreeEnd(d, c), [j \in (c + 1)..SubtreeEnd(d, c) |-> d[j].tag \in {"h3", "h4", "button"}])

\* the answer text looked up for the question tag q
AnswerOf(d, q) ==
    LET nxt == NextTagSibling(d, q)
        a1  == IF nxt # 0 THEN clean_text(GetText(d, nxt)) ELSE ""
        par == d[q].parent
        nx2 == IF par # 0 THEN NextTagSibling(d, par) ELSE 0
    IN  IF a1 # "" THEN a1
        ELSE IF nx2 # 0 THEN clean_text(GetText(d, nx2)) ELSE ""

RECURSIVE QuestionsOf(_, _, _)
\* the question tags of the containers cs[k..], container by container
QuestionsOf(d, cs, k) ==
    IF k > Len(cs) THEN <<>> ELSE QuestionTags(d, cs[k]) \o QuestionsOf(d, cs, k + 1)

RECURSIVE PairsFrom(_, _, _, _, _)
\* the two nested loops, with the set `seen` and the list `faqs` they build
PairsFrom(d, qs, k, seen, faqs) ==
    IF k > Len(qs) THEN faqs
    ELSE LET qtxt == clean_text(GetText(d, qs[k]))
             atxt == AnswerOf(d, qs[k])
             key  == <<Lower(qtxt), Prefix(Lower(atxt), FaqKeyLen)>>
         IN  IF qtxt = "" \/ Len(qtxt) < MinQuestionLen
                THEN PairsFrom(d, qs, k + 1, seen, faqs)
             ELSE IF atxt = "" \/ key \in seen
                THEN PairsFrom(d, qs, k + 1, seen, faqs)
             ELSE PairsFrom(d, qs, k + 1, seen \cup {key},
                            Append(faqs, [q |-> qtxt, a |-> atxt]))

\* candidates[:5]
faq_containers(d) == Take(FaqCandidates(d), MaxFaqContainers)

\* a variant that loops over every candidate and returns every pair
detect_faq_pairs_uncapped(d) ==
    SelectSeq(PairsFrom(d, QuestionsOf(d, FaqCandidates(d), 1), 1, {}, <<>>),
              LAMBDA x : Len(x.a) > MinAnswerLen)

detect_faq_pairs(d) ==
    Take(SelectSeq(PairsFrom(d, QuestionsOf(d, faq_containers(d), 1), 1, {}, <<>>),
                   LAMBDA x : Len(x.a) > MinAnswerLen),
         MaxFaqPairs)

-----------------------------------------------------------------------------
(* the values the variables of a part keep while another part is explored  *)

PageIdle ==
    /\ url = [scheme |-> "", netloc |-> "", path |-> ""]
    /\ parsed = <<>>
    /\ dom = <<>>
    /\ pc = "idle"
    /\ sections = <<>>
    /\ schema_jsonld = <<>>
    /\ internal_links = <<>>
    /\ faq_dom = <<>>
    /\ faq_considered = <<>>
    /\ runs = 0
    /\ prev_dom = <<>>
    /\ raised = FALSE

NormIdle == heading = "" /\ bucket = ""

RerunIdle ==
    /\ clean_dom = <<>>
    /\ extractions = 0
    /\ sec_runs = <<>>
    /\ faq_runs = <<>>

GapIdle ==
    /\ yours = <<>>
    /\ competitors = <<>>
    /\ gap_pc = "idle"
    /\ your_sum = <<>>
    /\ comp_sums = <<>>
    /\ comp_avg = <<>>
    /\ rows = <<>>

AppIdle ==
    /\ app_pc = "idle"
    /\ clock = 0
    /\ min_delay = 0
    /\ n_comp = 0
    /\ comp_i = 0
    /\ last_ts = 0
    /\ outcome = <<>>
    /\ attempts = <<>>
    /\ analysed = {}
    /\ fetches = 0
    /\ ts_updates = 0
    /\ prev_ts = 0 /\ cur_ts = 0 /\ prev_at = 0 /\ cur_at = 0
    /\ elapsed = 0 /\ slept = 0 /\ first_slept = 0

-----------------------------------------------------------------------------
(* Pages handed to the extractor.  A page is built from fragments, each a  *)
(* small subtree whose nodes name their parent inside the fragment (0: the *)
(* place the fragment is attached, the top of the tree).                   *)

T_Long == "Our dentists provide gentle care for the whole family every single day."
T_Mid == "We are open six days a week."
T_Mid2 == "Call the front desk to book."
T_Short == "Read more"
H_Long == "Our Dental Services"
H_Short == "Fees"
Q_Cost == "What does a visit cost?"
A_Cost == "A first visit costs forty dollars including the x-rays we take."
A_Cost2 == "A first visit costs forty dollars including the x-rays we take, and more"
BadJson == "{\"@type\": \"FAQPage\",}"
GoodJson == "{\"@type\": \"FAQPage\"}"

Styled(n, st) == [n EXCEPT !.style = st]
Classed(n, c) == [n EXCEPT !.class = c]
WithId(n, i) == [n EXCEPT !.id = i]
Typed(n, t) == [n EXCEPT !.type = t]
Href(n, sc, nl, pa) == [n EXCEPT !.href = [scheme |-> sc, netloc |-> nl, path |-> pa]]

SectionFrags == <<
    <<Node("h2", 0, H_Long)>>,
    <<Node("h3", 0, H_Short)>>,
    <<Node("p", 0, T_Long)>>,
    <<Node("p", 0, T_Mid)>>,
    <<Node("p", 0, T_Short)>>,
    <<Node("h1", 0, "  \n")>>,
    <<Node("h4", 0, "Opening hours and directions")>>,
    <<Node("div", 0, ""), Node("h2", 1, "Meet  Our\tTeam"), Node("p", 1, T_Mid2)>>,
    <<Node("#text", 0, "Some bare text between the elements")>>,
    <<Node("ul", 0, "\n"), Node("li", 1, "First item"),
      Node("li", 1, " Second item in the list ")>>
>>

LinkFrags == <<
    <<Href(Node("a", 0, "Services"), "", "", "/services")>>,
    <<Href(Node("a", 0, "X"), "https", "other.com", "/x")>>,
    <<Href(Node("a", 0, "  Home\n page "), "HTTPS", "SITE.com", "/z")>>,
    <<Node("a", 0, "Top")>>,
    <<Href(Node("a", 0, "Mail us"), "mailto", "", "info@site.com")>>,
    <<Href(Node("a", 0, "Pricing"), "", "", "pricing")>>,
    <<Href(Node("a", 0, "Plans"), "", "site.com", "/p")>>,
    <<Href(Node("a", 0, "Assets"), "", "cdn.site.com", "/p")>>,
    <<Node("nav", 0, ""), Href(Node("a", 1, ""), "", "", "/contact"),
      Node("span", 2, "Contact"), Node("#text", 2, " us")>>
>>

NoiseFrags == <<
    <<Node("script", 0, "var x = 1;")>>,
    <<Typed(Node("script", 0, BadJson), "application/ld+json")>>,
    <<Typed(Node("script", 0, GoodJson), "application/ld+json")>>,
    <<Typed(Node("script", 0, " \n"), "application/ld+json")>>,
    <<Styled(Node("div", 0, ""), "display:none"), Node("p", 1, T_Mid)>>,
    <<Styled(Node("p", 0, T_Mid2), "color:red; VISIBILITY:HIDDEN")>>,
    <<Node("svg", 0, ""), Node("style", 1, "path { fill: red }")>>,
    <<Styled(Node("p", 0, T_Mid), "color:red")>>,
    <<Styled(Node("div", 0, ""), "display: none"), Node("p", 1, T_Mid)>>,
    <<Node("div", 0, ""), Styled(Node("span", 1, "x"), "Display:None"),
      Node("canvas", 1, "")>>,
    <<Node("noscript", 0, ""), Node("img", 1, "")>>,
    <<Node("h2", 0, H_Long)>>
>>

FaqFrags == <<
    <<Classed(Node("div", 0, ""), "faq-list"), Node("h3", 1, Q_Cost), Node("p", 1, A_Cost)>>,
    <<WithId(Node("section", 0, ""), "FAQ"), Node("button", 1, "Ask"),
      Node("div", 1, T_Mid)>>,
    <<Classed(Node("div", 0, ""), "accordion"), Node("div", 1, ""),
      Node("button", 2, "How do I book online?"), Node("div", 1, T_Mid2)>>,
    <<Classed(Node("div", 0, ""), "item FAQ"), Node("h4", 1, "WHAT does a  visit cost?"),
      Node("#text", 1, "\n"), Node("p", 1, A_Cost2)>>,
    <<Classed(Node("div", 0, ""), "faq"), Node("h3", 1, "Do you take walk-ins?"),
      Node("p", 1, "Yes, we do.")>>,
    <<Classed(Node("section", 0, ""), "toggle"), Node("h3", 1, "Where do I park?"),
      Node("p", 1, T_Long)>>,
    <<Node("p", 0, T_Mid)>>
>>

\* the fragment f attached at the top of the tree d
Attach(d, f) ==
    d \o [k \in 1..Len(f) |->
            [f[k] EXCEPT !.parent = IF f[k].parent = 0 THEN 0 ELSE f[k].parent + Len(d)]]

RECURSIVE BuildFrom(_, _, _)
BuildFrom(frags, pick, k) ==
    IF k = 0 THEN <<>> ELSE Attach(BuildFrom(frags, pick, k - 1), frags[pick[k]])

\* the trees made of up to n fragments of `frags`, in every order
TreesOf(frags, n) ==
    { BuildFrom(frags, pick, Len(pick)) :
        pick \in UNION {[1..m -> 1..Len(frags)] : m \in 0..n} }

MaxSectionFrags == 3
MaxLinkFrags == 2
MaxNoiseFrags == 2
MaxFaqFrags == 2

Digit(n) == SubSeq("0123456789", n + 1, n + 1)
NumStr(n) == IF n < 10 THEN Digit(n) ELSE Digit(n \div 10) \o Digit(n % 10)

\* n times: a thin heading (short title, no body) and a heading that is kept
ManySections(n) ==
    [k \in 1..(2 * n) |->
        IF k % 2 = 1 THEN Node("h3", 0, H_Short)
        ELSE Node("h2", 0, H_Long \o " " \o NumStr(k \div 2))]

\* one FAQ container with nq questions; its first question is asked twice and
\* its second answer is too short to be kept
FaqBlock(c, nq) ==
    <<Classed(Node("div", 0, ""), "faq-block")>>
    \o [k \in 1..(2 * nq) |->
          IF k % 2 = 1
          THEN Node("h3", 1, "Question number " \o NumStr(c) \o "-" \o NumStr((k + 1) \div 2) \o "?")
          ELSE Node("p", 1, IF k = 4 THEN "No."
                            ELSE "The answer to question " \o NumStr(c) \o "-"
                                 \o NumStr(k \div 2) \o " is yes.")]
    \o <<Node("h3", 1, "question NUMBER " \o NumStr(c) \o "-1?"),
         Node("p", 1, "The answer to question " \o NumStr(c) \o "-1 is yes.")>>

RECURSIVE ManyFaqs(_, _)
ManyFaqs(nc, nq) ==
    IF nc = 0 THEN <<>> ELSE Attach(ManyFaqs(nc - 1, nq), FaqBlock(nc, nq))

\* how far the large pages go beyond the caps
OverCap == 2

SiteUrl == [scheme |-> "https", netloc |-> "site.com", path |-> "/"]
DeepUrl == [scheme |-> "https", netloc |-> "Site.com", path |-> "/a/b"]

LargeTrees ==
    { ManySections(n) : n \in (MaxSections - 1)..(MaxSections + OverCap) }
    \cup { ManyFaqs(nc, 8) : nc \in (MaxFaqContainers - 1)..(MaxFaqContainers + OverCap) }

PageInputs ==
    { [url |-> SiteUrl, dom |-> d] :
        d \in TreesOf(SectionFrags, MaxSectionFrags) \cup TreesOf(NoiseFrags, MaxNoiseFrags)
              \cup TreesOf(FaqFrags, MaxFaqFrags) \cup LargeTrees }
    \cup { [url |-> u, dom |-> d] :
             u \in {SiteUrl, DeepUrl}, d \in TreesOf(LinkFrags, MaxLinkFrags) }

-----------------------------------------------------------------------------
(* extractor.py: extract_page, after fetch_html and BeautifulSoup(html)    *)
(* (the meta, headings, alt-text and page-text steps read the tree only    *)
(* and are left out)                                                       *)

InitPage ==
    /\ \E p \in PageInputs : url = p.url /\ parsed = p.dom /\ dom = p.dom
    /\ pc = "parsed"
    /\ sections = <<>>
    /\ schema_jsonld = <<>>
    /\ internal_links = <<>>
    /\ faq_dom = <<>>
    /\ faq_considered = <<>>
    /\ runs = 0
    /\ prev_dom = <<>>
    /\ raised = FALSE
    /\ heading = ""
    /\ bucket = ""
    /\ AppIdle
    /\ RerunIdle
    /\ GapIdle

\* _remove_noise(soup); an exception leaves extract_page
RemoveNoise ==
    /\ pc = "parsed"
    /\ LET r == remove_noise(dom)
       IN  /\ dom' = r.dom
           /\ raised' = r.raised
           /\ pc' = IF r.raised THEN "raised" ELSE "cleaned"
    /\ prev_dom' = dom
    /\ runs' = runs + 1
    /\ UNCHANGED <<url, parsed, sections, schema_jsonld, internal_links, faq_dom,
                   faq_considered, normVars, appVars,
                   rerunVars, gapVars>>

ExtractSections ==
    /\ pc = "cleaned"
    /\ sections' = extract_sections_by_headings(dom)
    /\ pc' = "sections"
    /\ UNCHANGED <<url, parsed, dom, schema_jsonld, internal_links, faq_dom,
                   faq_considered, runs, prev_dom, raised, normVars, appVars,
                   rerunVars, gapVars>>

ExtractSchema ==
    /\ pc = "sections"
    /\ schema_jsonld' = extract_schema_jsonld(dom)
    /\ pc' = "schema"
    /\ UNCHANGED <<url, parsed, dom, sections, internal_links, faq_dom,
                   faq_considered, runs, prev_dom, raised, normVars, appVars,
                   rerunVars, gapVars>>

ExtractLinks ==
    /\ pc = "schema"
    /\ internal_links' = extract_internal_links(dom, url)
    /\ pc' = "links"
    /\ UNCHANGED <<url, parsed, dom, sections, schema_jsonld, faq_dom,
                   faq_considered, runs, prev_dom, raised, normVars, appVars,
                   rerunVars, gapVars>>

DetectFaq ==
    /\ pc = "links"
    /\ faq_dom' = detect_faq_pairs(dom)
    /\ faq_considered' = faq_containers(dom)
    /\ pc' = "done"
    /\ UNCHANGED <<url, parsed, dom, sections, schema_jsonld, internal_links,
                   runs, prev_dom, raised, normVars, appVars,
                   rerunVars, gapVars>>

NextPage ==
    \/ RemoveNoise
    \/ ExtractSections
    \/ ExtractSchema
    \/ ExtractLinks
    \/ DetectFaq

-----------------------------------------------------------------------------
(* Headings handed to the normalizer: up to MaxWords words joined by one   *)
(* whitespace run, in mixed letter case.                                   *)

MaxWords == 3

Words == <<"Frequently", "ASKED", "Questions", "Our", "Team", "Services",
           "Reviews", "Pricing", "Contact", "Random">>

Separators == {" ", "  \t\n"}

Headings ==
    { Join(sep, [i \in 1..n |-> Words[f[i]]]) :
        <<n, f, sep>> \in
            { <<n, f, sep>> \in
                (0..MaxWords) \X (UNION {[1..m -> 1..Len(Words)] : m \in 0..MaxWords})
                              \X Separators :
                DOMAIN f = 1..n } }

Buckets == {"about_team", "testimonials", "services", "faq", "pricing",
            "why_choose_us", "contact", "other"}

\* normalize_page: one section heading is bucketed
NormalizeHeading ==
    /\ bucket = ""
    /\ bucket' = normalize_heading_to_bucket(heading)
    /\ UNCHANGED <<heading, pageVars, appVars, rerunVars, gapVars>>

vars == <<normVars, pageVars, appVars, rerunVars, gapVars>>

InitBucket ==
    /\ heading \in Headings
    /\ bucket = ""
    /\ PageIdle
    /\ AppIdle
    /\ RerunIdle
    /\ GapIdle

NextBucket == NormalizeHeading

SpecBucket == InitBucket /\ [][NextBucket]_vars

SpecPage == InitPage /\ [][NextPage]_vars

-----------------------------------------------------------------------------
(* _remove_noise applied again and again to one tree                       *)

MaxRuns == 2

InitClean ==
    /\ \E d \in TreesOf(NoiseFrags, MaxNoiseFrags) : parsed = d /\ dom = d
    /\ url = SiteUrl
    /\ pc = "clean"
    /\ sections = <<>>
    /\ schema_jsonld = <<>>
    /\ internal_links = <<>>
    /\ faq_dom = <<>>
    /\ faq_considered = <<>>
    /\ runs = 0
    /\ prev_dom = <<>>
    /\ raised = FALSE
    /\ heading = ""
    /\ bucket = ""
    /\ AppIdle
    /\ RerunIdle
    /\ GapIdle

CleanOnce ==
    /\ pc = "clean"
    /\ runs < MaxRuns
    /\ LET r == remove_noise(dom)
       IN  dom' = r.dom /\ raised' = r.raised
    /\ prev_dom' = dom
    /\ runs' = runs + 1
    /\ UNCHANGED <<url, parsed, pc, sections, schema_jsonld, internal_links, faq_dom,
                   faq_considered, normVars, appVars,
                   rerunVars, gapVars>>

NextClean == CleanOnce

SpecClean == InitClean /\ [][NextClean]_vars

-----------------------------------------------------------------------------
(* app.py: the batch run (one own page, n_comp competitor pages), and      *)
(* utils.rate_limit_sleep.  Time is counted in half seconds, the step of   *)
(* the delay slider.                                                       *)

MaxComp == 2
MaxDelay == 3
MaxFetch == 2
MaxLag == 1

\* time.time() when the run starts: far above any delay the slider offers
Epoch == 100

Pages == 0..n_comp

\* a variant that never blocks
SleepForNone(now, last, min_interval) == 0

\* rate_limit_sleep: the argument of time.sleep (0: sleep is not called)
SleepFor(now, last, min_interval) ==
    IF now - last < min_interval THEN min_interval - (now - last) ELSE 0

InitBatch ==
    /\ app_pc = "start"
    /\ clock = Epoch
    /\ min_delay \in 0..MaxDelay
    /\ n_comp \in 0..MaxComp
    /\ comp_i = 0
    /\ last_ts = 0
    /\ outcome = [p \in 0..MaxComp |-> "none"]
    /\ attempts = [p \in 0..MaxComp |-> 0]
    /\ analysed = {}
    /\ fetches = 0
    /\ ts_updates = 0
    /\ prev_ts = 0 /\ cur_ts = 0 /\ prev_at = 0 /\ cur_at = 0
    /\ elapsed = 0 /\ slept = 0 /\ first_slept = 0
    /\ PageIdle
    /\ NormIdle
    /\ RerunIdle
    /\ GapIdle

\* lines 38-47: without a competitor URL the run stops; else last_ts = 0.0
Validate ==
    /\ app_pc = "start"
    /\ app_pc' = IF n_comp = 0 THEN "stopped" ELSE "limit_yours"
    /\ last_ts' = 0
    /\ UNCHANGED <<clock, min_delay, n_comp, comp_i, outcome, attempts, analysed,
                   fetches, ts_updates, prev_ts, cur_ts, prev_at, cur_at, elapsed,
                   slept, first_slept, pageVars, normVars,
                   rerunVars, gapVars>>

\* last_ts = rate_limit_sleep(last_ts, min_delay): time.sleep blocks for at
\* least the time asked, and the time read after it is what is returned
RateLimit(here, there) ==
    /\ app_pc = here
    /\ LET d == SleepFor(clock, last_ts, min_delay)
       IN  \E over \in 0..(IF d > 0 THEN 1 ELSE 0) :
              /\ clock' = clock + d + over
              /\ last_ts' = clock + d + over
              /\ slept' = d + over
              /\ first_slept' = IF ts_updates = 0 THEN d + over ELSE first_slept
    /\ elapsed' = clock - last_ts
    /\ ts_updates' = ts_updates + 1
    /\ app_pc' = there
    /\ UNCHANGED <<min_delay, n_comp, comp_i, outcome, attempts, analysed, fetches,
                   prev_ts, cur_ts, prev_at, cur_at, pageVars, normVars,
                   rerunVars, gapVars>>

\* line 51
RateLimitYours == RateLimit("limit_yours", "fetch_yours")

\* line 60
RateLimitComp == RateLimit("limit_comp", "fetch_comp")

\* extract_page(u) for page p: the request leaves after `lag`, the call takes
\* `dur` more and returns (ok) or raises
Fetch(p, ok, lag, dur) ==
    /\ clock' = clock + lag + dur
    /\ outcome' = [outcome EXCEPT ![p] = IF ok THEN "ok" ELSE "failed"]
    /\ attempts' = [attempts EXCEPT ![p] = @ + 1]
    /\ fetches' = fetches + 1
    /\ prev_ts' = cur_ts
    /\ prev_at' = cur_at
    /\ cur_ts' = last_ts
    /\ cur_at' = clock + lag

\* lines 52-53: no try around the own page, an exception ends the script run
FetchYours ==
    /\ app_pc = "fetch_yours"
    /\ \E ok \in BOOLEAN, lag \in 0..MaxLag, dur \in 0..MaxFetch :
          /\ Fetch(0, ok, lag, dur)
          /\ app_pc' = IF ok THEN "limit_comp" ELSE "aborted"
    /\ comp_i' = 1
    /\ UNCHANGED <<min_delay, n_comp, last_ts, analysed, ts_updates, elapsed, slept,
                   first_slept, pageVars, normVars,
                   rerunVars, gapVars>>

\* lines 61-65: an exception is caught, warned about, and the loop goes on
FetchComp ==
    /\ app_pc = "fetch_comp"
    /\ \E ok \in BOOLEAN, lag \in 0..MaxLag, dur \in 0..MaxFetch :
          Fetch(comp_i, ok, lag, dur)
    /\ comp_i' = comp_i + 1
    /\ app_pc' = IF comp_i + 1 > n_comp THEN "after_loop" ELSE "limit_comp"
    /\ UNCHANGED <<min_delay, n_comp, last_ts, analysed, ts_updates, elapsed, slept,
                   first_slept, pageVars, normVars,
                   rerunVars, gapVars>>

\* lines 67-118: with no competitor extracted the run stops, else the own
\* page and the extracted competitors are analysed
Analyse ==
    /\ app_pc = "after_loop"
    /\ IF \A p \in 1..n_comp : outcome[p] # "ok"
       THEN app_pc' = "stopped" /\ analysed' = analysed
       ELSE app_pc' = "done" /\ analysed' = {p \in Pages : outcome[p] = "ok"}
    /\ UNCHANGED <<clock, min_delay, n_comp, comp_i, last_ts, outcome, attempts,
                   fetches, ts_updates, prev_ts, cur_ts, prev_at, cur_at, elapsed,
                   slept, first_slept, pageVars, normVars,
                   rerunVars, gapVars>>

NextBatch ==
    \/ Validate
    \/ RateLimitYours
    \/ FetchYours
    \/ RateLimitComp
    \/ FetchComp
    \/ Analyse

SpecBatch == InitBatch /\ [][NextBatch]_vars

-----------------------------------------------------------------------------
(* extractor.py: extract_page lines 184-190.  The extractors are called on *)
(* the tree _remove_noise left, here in any order and more than once.      *)

MaxRerunFrags == 2
MaxExtractions == 3

RerunFrags == <<
    <<Node("h2", 0, H_Long)>>,
    <<Node("h3", 0, H_Short)>>,
    <<Node("p", 0, T_Long)>>,
    <<Classed(Node("div", 0, ""), "faq-list"), Node("h3", 1, Q_Cost), Node("p", 1, A_Cost)>>,
    <<Classed(Node("div", 0, ""), "item FAQ"), Node("h4", 1, "WHAT does a  visit cost?"),
      Node("#text", 1, "\n"), Node("p", 1, A_Cost2)>>,
    <<Classed(Node("section", 0, ""), "toggle"), Node("h3", 1, "Where do I park?"),
      Node("p", 1, T_Long)>>,
    <<Styled(Node("p", 0, T_Mid2), "color:red; VISIBILITY:HIDDEN")>>,
    <<Typed(Node("script", 0, GoodJson), "application/ld+json")>>,
    <<Href(Node("a", 0, "Services"), "", "", "/services")>>
>>

\* the trees extract_page hands to its extractors: _remove_noise has returned
CleanedTrees ==
    { remove_noise(d).dom :
        d \in {t \in TreesOf(RerunFrags, MaxRerunFrags) : ~remove_noise(t).raised} }

\* a variant of the call below that detaches the headings it has read
SectionsCallDetaching(d) ==
    [out |-> extract_sections_by_headings(d),
     dom |-> LET hs == HeadingTags(d)
             IN  RemoveNodes(d, UNION {hs[k]..SubtreeEnd(d, hs[k]) : k \in 1..Len(hs)})]

\* one call of extract_sections_by_headings on the tree d: the list it
\* returns and the tree it leaves.  Lines 140-173 read the tree (find_all,
\* get_text, next_siblings, name) and call nothing that changes it.
SectionsCall(d) == [out |-> extract_sections_by_headings(d), dom |-> d]

\* one call of detect_faq_pairs on the tree d: the list it returns and the
\* tree it leaves.  Lines 86-138 read the tree (find_all, get, get_text,
\* find_next_sibling, parent); `seen` and `faqs` are locals of the call.
FaqCall(d) == [out |-> detect_faq_pairs(d), dom |-> d]

InitRerun ==
    /\ \E d \in CleanedTrees : dom = d /\ clean_dom = d
    /\ url = SiteUrl
    /\ parsed = <<>>
    /\ pc = "rerun"
    /\ sections = <<>>
    /\ schema_jsonld = <<>>
    /\ internal_links = <<>>
    /\ faq_dom = <<>>
    /\ faq_considered = <<>>
    /\ runs = 1
    /\ prev_dom = <<>>
    /\ raised = FALSE
    /\ extractions = 0
    /\ sec_runs = <<>>
    /\ faq_runs = <<>>
    /\ NormIdle
    /\ AppIdle
    /\ GapIdle

\* line 186: sections = extract_sections_by_headings(soup)
RerunSections ==
    /\ pc = "rerun"
    /\ extractions < MaxExtractions
    /\ LET r == SectionsCall(dom)
       IN  /\ sections' = r.out
           /\ sec_runs' = Append(sec_runs, r.out)
           /\ dom' = r.dom
    /\ extractions' = extractions + 1
    /\ UNCHANGED <<url, parsed, pc, schema_jsonld, internal_links, faq_dom,
                   faq_considered, runs, prev_dom, raised, clean_dom, faq_runs,
                   normVars, appVars, gapVars>>

\* line 187: schema = extract_schema_jsonld(soup)
RerunSchema ==
    /\ pc = "rerun"
    /\ extractions < MaxExtractions
    /\ schema_jsonld' = extract_schema_jsonld(dom)
    /\ extractions' = extractions + 1
    /\ UNCHANGED <<url, parsed, dom, pc, sections, internal_links, faq_dom,
                   faq_considered, runs, prev_dom, raised, clean_dom, sec_runs,
                   faq_runs, normVars, appVars, gapVars>>

\* line 188: links_internal = extract_internal_links(soup, url)
RerunLinks ==
    /\ pc = "rerun"
    /\ extractions < MaxExtractions
    /\ internal_links' = extract_internal_links(dom, url)
    /\ extractions' = extractions + 1
    /\ UNCHANGED <<url, parsed, dom, pc, sections, schema_jsonld, faq_dom,
                   faq_considered, runs, prev_dom, raised, clean_dom, sec_runs,
                   faq_runs, normVars, appVars, gapVars>>

\* line 190: faqs_dom = detect_faq_pairs(soup)
RerunFaq ==
    /\ pc = "rerun"
    /\ extractions < MaxExtractions
    /\ LET r == FaqCall(dom)
       IN  /\ faq_dom' = r.out
           /\ faq_runs' = Append(faq_runs, r.out)
           /\ dom' = r.dom
    /\ faq_considered' = faq_containers(dom)
    /\ extractions' = extractions + 1
    /\ UNCHANGED <<url, parsed, pc, sections, schema_jsonld, internal_links,
                   runs, prev_dom, raised, clean_dom, sec_runs, normVars, appVars,
                   gapVars>>

NextRerun ==
    \/ RerunSections
    \/ RerunSchema
    \/ RerunLinks
    \/ RerunFaq

SpecRerun == InitRerun /\ [][NextRerun]_vars

-----------------------------------------------------------------------------
(* normalize.py: normalize_page, and analyze.py: summarize_structure,      *)
(* competitor_average and identify_gaps.  A dict is a sequence of          *)
(* [k, v] entries in insertion order, or a record where only the fields    *)
(* are read; a number with two decimals is counted in hundredths.  Fields  *)
(* identify_gaps never reads (title, h1_count, ...) are left out.          *)

\* {**extracted, "sections_normalized": [{**s, "bucket": bucket} ...]}
normalize_page(extracted) ==
    [f \in DOMAIN extracted \cup {"sections_normalized"} |->
        IF f = "sections_normalized"
        THEN [i \in 1..Len(extracted.sections) |->
                [level |-> extracted.sections[i].level,
                 heading |-> extracted.sections[i].heading,
                 text |-> extracted.sections[i].text,
                 bucket |-> normalize_heading_to_bucket(extracted.sections[i].heading)]]
        ELSE extracted[f]]

\* dict.get(key, default) on a dict kept as a sequence of entries
DictGet(dict, key, default) ==
    IF \E i \in 1..Len(dict) : dict[i].k = key
    THEN dict[CHOOSE i \in 1..Len(dict) : dict[i].k = key].v
    ELSE default

\* dict[key] += n on a Counter or a defaultdict(int)
DictAdd(dict, key, n) ==
    IF \E i \in 1..Len(dict) : dict[i].k = key
    THEN [i \in 1..Len(dict) |->
            IF dict[i].k = key THEN [k |-> key, v |-> dict[i].v + n] ELSE dict[i]]
    ELSE Append(dict, [k |-> key, v |-> n])

RECURSIVE CounterFrom(_, _, _)
CounterFrom(items, i, dict) ==
    IF i > Len(items) THEN dict ELSE CounterFrom(items, i + 1, DictAdd(dict, items[i], 1))

\* Counter(buckets)
Counter(items) == CounterFrom(items, 1, <<>>)

\* _schema_has_type for an entry that is a dict with a string "@type"
\* (kind "dict") or the raw text of a script that was no valid JSON
schema_has_type(obj, type_name) ==
    obj.kind = "dict" /\ Lower(obj.type) = Lower(type_name)

schema_has_any_type(obj, type_names) ==
    \E t \in type_names : schema_has_type(obj, t)

LocalBizTypes == {"LocalBusiness", "Dentist", "Plumber", "ProfessionalService"}

summarize_structure(page) ==
    LET secs == page.sections_normalized
        buckets == [i \in 1..Len(secs) |-> secs[i].bucket]
        schema == page.schema_jsonld
    IN  [bucket_counts |-> Counter(buckets),
         word_count |-> page.word_count,
         internal_links_count |-> Len(page.internal_links),
         faq_dom_count |-> Len(page.faq_dom),
         has_faq_schema |-> \E i \in 1..Len(schema) : schema_has_type(schema[i], "FAQPage"),
         has_org_schema |->
             \E i \in 1..Len(schema) : schema_has_type(schema[i], "Organization"),
         has_localbiz_schema |->
             \E i \in 1..Len(schema) : schema_has_any_type(schema[i], LocalBizTypes)]

RECURSIVE SumRange(_, _, _)
\* sum(vals[lo..hi]), the range halved at each step
SumRange(vals, lo, hi) ==
    IF lo > hi THEN 0
    ELSE IF lo = hi THEN vals[lo]
    ELSE LET mid == (lo + hi) \div 2
         IN  SumRange(vals, lo, mid) + SumRange(vals, mid + 1, hi)

\* sum(vals), vals[i] given by the field f of the i-th summary (1 and 0 for
\* the Boolean fields)
SumOver(sums, f) ==
    SumRange([i \in 1..Len(sums) |->
                 IF f \in {"has_faq_schema", "has_org_schema", "has_localbiz_schema"}
                 THEN (IF sums[i][f] THEN 1 ELSE 0)
                 ELSE sums[i][f]],
             1, Len(sums))

\* round(num / den, 2), in hundredths: the nearest hundredth, the even one
\* when two are equally near
Round2(num, den) ==
    LET q == (100 * num) \div den
        r == (100 * num) % den
    IN  IF 2 * r < den THEN q
        ELSE IF 2 * r > den THEN q + 1
        ELSE IF q % 2 = 0 THEN q ELSE q + 1

RECURSIVE KeysOf(_, _, _)
\* the keys of the bucket_counts of the summaries lo..hi, in loop order
KeysOf(sums, lo, hi) ==
    IF lo > hi THEN <<>>
    ELSE IF lo = hi
         THEN [j \in 1..Len(sums[lo].bucket_counts) |-> sums[lo].bucket_counts[j].k]
    ELSE LET mid == (lo + hi) \div 2
         IN  KeysOf(sums, lo, mid) \o KeysOf(sums, mid + 1, hi)

\* the two nested loops that fill bucket_totals: a key enters the dict when
\* the loops first meet it, and its value is the sum of the counts met
BucketTotals(sums) ==
    LET keys  == KeysOf(sums, 1, Len(sums))
        first == SelectSeq([j \in 1..Len(keys) |-> j],
                           LAMBDA j : \A x \in 1..(j - 1) : keys[x] # keys[j])
    IN  [j \in 1..Len(first) |->
            [k |-> keys[first[j]],
             v |-> SumRange([i \in 1..Len(sums) |->
                                DictGet(sums[i].bucket_counts, keys[first[j]], 0)],
                            1, Len(sums))]]

NumericFields == {"word_count", "internal_links_count", "faq_dom_count"}
BoolFields == {"has_faq_schema", "has_org_schema", "has_localbiz_schema"}

\* the dict competitor_average returns ({} for no competitor)
competitor_average(struct_summaries) ==
    IF struct_summaries = <<>> THEN <<>>
    ELSE LET n == Len(struct_summaries)
             totals == BucketTotals(struct_summaries)
         IN  [f \in NumericFields \cup BoolFields \cup {"bucket_counts_avg"} |->
                IF f = "bucket_counts_avg"
                THEN [i \in 1..Len(totals) |->
                        [k |-> totals[i].k, v |-> Round2(totals[i].v, n)]]
                ELSE Round2(SumOver(struct_summaries, f), n)]

\* comp_avg.get(field, default)
AvgGet(avg, field, default) == IF field \in DOMAIN avg THEN avg[field] ELSE default

StructuralThreshold == 80
TechnicalThreshold == 60
DepthPercent == 65

\* the row appended for a gap (the texts that are the same for every row of
\* a gap type are left out)
GapRow(gap_type, gap, competitor_avg, yours_value) ==
    [gap_type |-> gap_type, gap |-> gap, competitor_avg |-> competitor_avg,
     yours |-> yours_value]

\* a variant of the loop below without the test bucket != "other"
StructuralRowsWithOther(your_buckets, comp_bucket_avg) ==
    LET hit == SelectSeq(comp_bucket_avg,
                         LAMBDA e : /\ e.v >= StructuralThreshold
                                    /\ DictGet(your_buckets, e.k, 0) = 0)
    IN  [i \in 1..Len(hit) |->
            GapRow("Structural", "Missing section bucket: " \o hit[i].k, hit[i].v, 0)]

\* lines 122-133: the rows the loop over comp_bucket_avg appends
StructuralRows(your_buckets, comp_bucket_avg) ==
    LET hit == SelectSeq(comp_bucket_avg,
                         LAMBDA e : /\ e.v >= StructuralThreshold
                                    /\ DictGet(your_buckets, e.k, 0) = 0
                                    /\ e.k # "other")
    IN  [i \in 1..Len(hit) |->
            GapRow("Structural", "Missing section bucket: " \o hit[i].k, hit[i].v,
                   DictGet(your_buckets, hit[i].k, 0))]

TechnicalChecks == <<
    [field |-> "has_faq_schema", label |-> "FAQ schema"],
    [field |-> "has_org_schema", label |-> "Organization schema"],
    [field |-> "has_localbiz_schema", label |-> "LocalBusiness/Service schema"]
>>

\* lines 136-152
TechnicalRows(ysum, avg) ==
    LET hit == SelectSeq(TechnicalChecks,
                         LAMBDA c : /\ AvgGet(avg, c.field, 0) >= TechnicalThreshold
                                    /\ ~ysum[c.field])
    IN  [i \in 1..Len(hit) |->
            GapRow("Technical", "Missing " \o hit[i].label, AvgGet(avg, hit[i].field, 0), 0)]

DepthChecks == <<
    [metric |-> "word_count", nice |-> "Content depth (word count)"],
    [metric |-> "internal_links_count", nice |-> "Internal links"],
    [metric |-> "faq_dom_count", nice |-> "FAQ coverage"]
>>

\* lines 155-171: comp_v > 0 and your_v < comp_v * 0.65
DepthRows(ysum, avg) ==
    LET hit == SelectSeq(DepthChecks,
                         LAMBDA c : /\ AvgGet(avg, c.metric, 0) > 0
                                    /\ ysum[c.metric] * 10000
                                         < AvgGet(avg, c.metric, 0) * DepthPercent)
    IN  [i \in 1..Len(hit) |->
            GapRow("Depth", "Below competitor average: " \o hit[i].nice,
                   AvgGet(avg, hit[i].metric, 0), ysum[hit[i].metric])]

\* lines 173-184: the frame built from the rows
GapFrame(rs) ==
    IF rs = <<>>
    THEN <<[gap_type |-> "None detected (basic)",
            gap |-> "No major structural/technical gaps detected by baseline rules.",
            competitor_avg |-> "", yours |-> ""]>>
    ELSE rs

(* Pages handed to identify_gaps                                           *)

MaxCompetitors == 2

\* an extracted page with one section per heading, a schema entry per type
\* ("" stands for the raw text of an invalid script) and lists of the lengths given
PageWith(headings, types, words, nlinks, nfaqs) ==
    normalize_page(
        [sections |-> [i \in 1..Len(headings) |->
                          [level |-> 2, heading |-> headings[i], text |-> T_Long]],
         schema_jsonld |-> [i \in 1..Len(types) |->
                               IF types[i] = "" THEN [kind |-> "raw", type |-> BadJson]
                               ELSE [kind |-> "dict", type |-> types[i]]],
         word_count |-> words,
         internal_links |-> [i \in 1..nlinks |-> "https://site.com/p" \o NumStr(i)],
         faq_dom |-> [i \in 1..nfaqs |-> [q |-> Q_Cost, a |-> A_Cost]]])

SamplePages == {
    PageWith(<<>>, <<>>, 0, 0, 0),
    PageWith(<<"Random Heading">>, <<"">>, 120, 1, 0),
    PageWith(<<"Welcome", "Random Heading", "Latest News">>, <<"faqpage">>, 900, 9, 4),
    PageWith(<<"FAQ">>, <<"Organization", "Dentist">>, 700, 6, 2),
    PageWith(<<"Opening Hours", "Frequently Asked Questions", "Pricing">>,
             <<"FAQPage">>, 800, 12, 6),
    PageWith(<<"Our Services", "Latest News", "Treatments">>, <<>>, 150, 2, 0),
    PageWith(<<"Fees and Plans", "FAQ", "Meet Our Team">>, <<"LocalBusiness">>, 400, 3, 1)
}

\* a batch in which the share of the competitors that have one FAQ section
\* is just under four fifths; the others have one section bucketed "other"
EdgeCompetitors == 44
EdgeWithBucket == 35

EdgeBatch ==
    [i \in 1..EdgeCompetitors |->
        IF i <= EdgeWithBucket THEN PageWith(<<"FAQ">>, <<>>, 300, 3, 1)
        ELSE PageWith(<<"Random Heading">>, <<>>, 300, 3, 1)]

CompetitorLists ==
    UNION {[1..n -> SamplePages] : n \in 0..MaxCompetitors} \cup {EdgeBatch}

InitGaps ==
    /\ yours \in SamplePages
    /\ competitors \in CompetitorLists
    /\ gap_pc = "start"
    /\ your_sum = <<>>
    /\ comp_sums = <<>>
    /\ comp_avg = <<>>
    /\ rows = <<>>
    /\ PageIdle
    /\ NormIdle
    /\ AppIdle
    /\ RerunIdle

\* line 112
SummarizeYours ==
    /\ gap_pc = "start"
    /\ your_sum' = summarize_structure(yours)
    /\ gap_pc' = "yours"
    /\ UNCHANGED <<yours, competitors, comp_sums, comp_avg, rows, pageVars, normVars,
                   appVars, rerunVars>>

\* line 113
SummarizeCompetitors ==
    /\ gap_pc = "yours"
    /\ comp_sums' = [i \in 1..Len(competitors) |-> summarize_structure(competitors[i])]
    /\ gap_pc' = "comps"
    /\ UNCHANGED <<yours, competitors, your_sum, comp_avg, rows, pageVars, normVars,
                   appVars, rerunVars>>

\* line 114
CompetitorAverage ==
    /\ gap_pc = "comps"
    /\ comp_avg' = competitor_average(comp_sums)
    /\ gap_pc' = "avg"
    /\ UNCHANGED <<yours, competitors, your_sum, comp_sums, rows, pageVars, normVars,
                   appVars, rerunVars>>

\* lines 116-133
StructuralGaps ==
    /\ gap_pc = "avg"
    /\ rows' = StructuralRows(your_sum.bucket_counts, AvgGet(comp_avg, "bucket_counts_avg", <<>>))
    /\ gap_pc' = "structural"
    /\ UNCHANGED <<yours, competitors, your_sum, comp_sums, comp_avg, pageVars,
                   normVars, appVars, rerunVars>>

\* lines 135-152
TechnicalGaps ==
    /\ gap_pc = "structural"
    /\ rows' = rows \o TechnicalRows(your_sum, comp_avg)
    /\ gap_pc' = "technical"
    /\ UNCHANGED <<yours, competitors, your_sum, comp_sums, comp_avg, pageVars,
                   normVars, appVars, rerunVars>>

\* lines 154-171
DepthGaps ==
    /\ gap_pc = "technical"
    /\ rows' = rows \o DepthRows(your_sum, comp_avg)
    /\ gap_pc' = "depth"
    /\ UNCHANGED <<yours, competitors, your_sum, comp_sums, comp_avg, pageVars,
                   normVars, appVars, rerunVars>>

\* lines 173-184
ReturnFrame ==
    /\ gap_pc = "depth"
    /\ rows' = GapFrame(rows)
    /\ gap_pc' = "returned"
    /\ UNCHANGED <<yours, competitors, your_sum, comp_sums, comp_avg, pageVars,
                   normVars, appVars, rerunVars>>

NextGaps ==
    \/ SummarizeYours
    \/ SummarizeCompetitors
    \/ CompetitorAverage
    \/ StructuralGaps
    \/ TechnicalGaps
    \/ DepthGaps
    \/ ReturnFrame

SpecGaps == InitGaps /\ [][NextGaps]_vars

-----------------------------------------------------------------------------
(* Claims about the normalizer                                             *)

\* the rules (by position) some pattern of which matches the normalized heading
MatchingRules(hd) ==
    LET h == normalize_ws_lower(hd)
    IN  { r \in 1..Len(SECTION_SYNONYMS) :
            \E k \in 1..Len(SECTION_SYNONYMS[r].patterns) :
                \E lit \in SECTION_SYNONYMS[r].patterns[k] : Contains(h, lit) }

MinOf(S) == CHOOSE x \in S : \A y \in S : x <= y

RuleOrder == <<"about_team", "testimonials", "services", "faq", "pricing",
               "why_choose_us", "contact">>

\* C2: the normalizer is first-match-wins over the ordered rule list
\* (about_team, testimonials, services, faq, pricing, why_choose_us, contact):
\* the bucket returned is the earliest rule having a matching pattern, it is
\* "other" exactly when no pattern of any rule matches, and it is always one
\* of the eight buckets.
C2_FirstMatchWins ==
    bucket # "" =>
        /\ [r \in 1..Len(SECTION_SYNONYMS) |-> SECTION_SYNONYMS[r].bucket] = RuleOrder
        /\ bucket \in Buckets
        /\ LET M == MatchingRules(heading)
           IN  /\ (bucket = "other") <=> (M = {})
               /\ M # {} => bucket = RuleOrder[MinOf(M)]

\* a heading matched by two rules has been bucketed to the earlier one
C2_Witness ==
    /\ bucket # ""
    /\ Cardinality(MatchingRules(heading)) >= 2
    /\ bucket = RuleOrder[MinOf(MatchingRules(heading))]

\* hd holds "frequently", a non-empty whitespace run, then "asked", in any case
HasFrequentlyAsked(hd) ==
    \E i \in 1..Len(hd) : \E j \in (i + 11)..Len(hd) :
        /\ j + 4 <= Len(hd)
        /\ Lower(SubSeq(hd, i, i + 9)) = "frequently"
        /\ \A k \in (i + 10)..(j - 1) : IsSpace(SubSeq(hd, k, k))
        /\ Lower(SubSeq(hd, j, j + 4)) = "asked"

\* C10 as stated: every heading containing "frequently asked" (any case, any
\* whitespace run) is bucketed faq, whatever else it contains.
C10_Original ==
    (bucket # "" /\ HasFrequentlyAsked(heading)) => bucket = "faq"

\* C10 amended: a heading containing "frequently asked" (any case, any
\* whitespace run) is bucketed faq unless a pattern of one of the rules
\* ordered before faq (about_team, testimonials, services) matches it, in
\* which case the earliest such rule wins.
C10_Amended ==
    (bucket # "" /\ HasFrequentlyAsked(heading)) =>
        LET M == MatchingRules(heading)
        IN  IF \E r \in M : r < 4
            THEN bucket = RuleOrder[MinOf(M)] /\ bucket # "faq"
            ELSE bucket = "faq"

\* "Frequently  <tab>ASKED" followed by a word of a later rule is bucketed faq
C10_Witness ==
    /\ bucket = "faq"
    /\ HasFrequentlyAsked(heading)
    /\ Contains(heading, "  \t")
    /\ \E r \in MatchingRules(heading) : r > 4

-----------------------------------------------------------------------------
(* Claims about the extractor                                              *)

AfterSections == {"sections", "schema", "links", "done"}
AfterSchema == {"schema", "links", "done"}
AfterLinks == {"links", "done"}

MinNat(a, b) == IF a <= b THEN a ELSE b

\* positions, in document order, of the h1-h3 headings of d that have a
\* non-empty title and pass the thin-section filter
KeptHeadings(d) ==
    SelectSeq([k \in 1..Len(d) |-> k],
              LAMBDA h : /\ d[h].tag \in {"h1", "h2", "h3"}
                         /\ clean_text(GetText(d, h)) # ""
                         /\ \/ Len(SectionBody(d, h)) > 60
                            \/ Len(clean_text(GetText(d, h))) > 10)

\* C1: the sections returned for a cleaned tree are at most 80, each has a
\* body longer than 60 or a heading longer than 10 characters and a level in
\* {1,2,3}, and they are exactly the first 80, in document order, of the
\* non-empty-titled h1-h3 headings that pass the thin-section filter.
C1_SectionsInvariant ==
    pc \in AfterSections =>
        LET K == KeptHeadings(dom)
        IN  /\ Len(sections) <= 80
            /\ \A k \in 1..Len(sections) :
                  /\ Len(sections[k].text) > 60 \/ Len(sections[k].heading) > 10
                  /\ sections[k].level \in {1, 2, 3}
            /\ Len(sections) = MinNat(80, Len(K))
            /\ \A k \in 1..Len(sections) :
                  /\ sections[k].heading = clean_text(GetText(dom, K[k]))
                  /\ sections[k].text = SectionBody(dom, K[k])
                  /\ sections[k].level = LevelOf(dom[K[k]].tag)

\* more than 80 headings pass the filter, thin ones stand between them, and
\* 80 sections were returned
C1_Witness ==
    /\ pc \in AfterSections
    /\ Len(sections) = 80
    /\ LET K == KeptHeadings(dom)
       IN  /\ Len(K) > 80
           /\ \E h \in 1..K[80] :
                 dom[h].tag \in {"h1", "h2", "h3"} /\ \A k \in 1..80 : K[k] # h

\* the siblings that follow h, up to the first one that is an h1-h3 element
SiblingsBeforeNextHeading(d, h) ==
    LET sibs  == {j \in (h + 1)..Len(d) : d[j].parent = d[h].parent}
        stops == {j \in sibs : d[j].tag \in {"h1", "h2", "h3"}}
    IN  {j \in sibs : \A x \in stops : j < x}

\* the body the claim describes for the heading h
BodyByClaim(d, h) ==
    LET before == SiblingsBeforeNextHeading(d, h)
        parts  == SelectSeq([k \in 1..Len(d) |-> k],
                            LAMBDA j : /\ j \in before
                                       /\ Len(clean_text(GetText(d, j))) > 20)
    IN  Join(" ", [k \in 1..Len(parts) |-> clean_text(GetText(d, parts[k]))])

JsonLdScripts(d) ==
    {i \in 1..Len(d) : d[i].tag = "script" /\ d[i].type = "application/ld+json"
                       /\ Strip(d[i].text) # ""}

\* C3: every non-empty application/ld+json script of the page contributes
\* exactly one entry to Page.schema_jsonld, and a script whose text is not
\* valid JSON contributes the fallback record holding its raw text.
C3_SchemaKept ==
    pc \in AfterSchema =>
        /\ Len(schema_jsonld) = Cardinality(JsonLdScripts(parsed))
        /\ \A i \in JsonLdScripts(parsed) :
              Strip(parsed[i].text) \notin ValidJson =>
                  \E k \in 1..Len(schema_jsonld) :
                      schema_jsonld[k] = [kind |-> "raw", value |-> Strip(parsed[i].text)]

\* anchors of d with a non-empty href whose resolved host is the page's host
InternalAnchors(d, base) ==
    SelectSeq([k \in 1..Len(d) |-> k],
              LAMBDA a : /\ d[a].tag = "a"
                         /\ UrlStr(d[a].href) # ""
                         /\ Lower(urljoin(base, d[a].href).netloc) = Lower(base.netloc))

CandidateContainers(d) ==
    LET byFaq == SelectSeq([k \in 1..Len(d) |-> k],
                           LAMBDA c : d[c].tag # "#text"
                                      /\ (Contains(Lower(d[c].class), "faq")
                                          \/ Contains(Lower(d[c].id), "faq")))
    IN  IF byFaq # <<>> THEN byFaq
        ELSE SelectSeq([k \in 1..Len(d) |-> k],
                       LAMBDA c : d[c].tag \in {"section", "div"}
                                  /\ \E w \in {"accordion", "toggle", "collapse"} :
                                        Contains(Lower(d[c].class), w))

FaqKey(x) == <<Lower(x.q), Prefix(Lower(x.a), 60)>>

\* C6: detect_faq_pairs inspects at most 5 candidate containers, the earliest
\* in document order, returns at most 30 pairs, each with a question of at
\* least 6 characters taken from an inspected container and an answer longer
\* than 20 characters, and no two returned pairs have the same (lowercased
\* question, first 60 characters of lowercased answer) key.
C6_FaqCaps ==
    pc = "done" =>
        /\ Len(faq_considered) <= 5
        /\ faq_considered = Take(CandidateContainers(dom), 5)
        /\ Len(faq_dom) <= 30
        /\ \A k \in 1..Len(faq_dom) :
              /\ Len(faq_dom[k].q) >= 6
              /\ Len(faq_dom[k].a) > 20
              /\ \E c \in 1..Len(faq_considered) :
                    \E q \in (faq_considered[c] + 1)..SubtreeEnd(dom, faq_considered[c]) :
                        clean_text(GetText(dom, q)) = faq_dom[k].q
        /\ \A j, k \in 1..Len(faq_dom) : j # k => FaqKey(faq_dom[j]) # FaqKey(faq_dom[k])

\* more than 5 candidates, more than 30 distinct pairs in the first 5, a
\* repeated question among them: 5 containers were inspected, 30 pairs returned
C6_Witness ==
    /\ pc = "done"
    /\ Len(CandidateContainers(dom)) > 5
    /\ Len(faq_considered) = 5
    /\ Len(faq_dom) = 30
    /\ \E i, j \in 1..Len(dom) :
          /\ i < j
          /\ dom[i].tag = "h3" /\ dom[j].tag = "h3"
          /\ Lower(dom[i].text) = Lower(dom[j].text)

\* C7: after one run of _remove_noise the tree holds no script, style, svg or
\* canvas node and no node whose inline style contains display:none or
\* visibility:hidden, and a second run leaves the tree unchanged.
C7_CleanIdempotent ==
    runs >= 1 =>
        /\ \A i \in 1..Len(dom) :
              /\ dom[i].tag \notin {"script", "style", "svg", "canvas"}
              /\ ~Contains(Lower(dom[i].style), "display:none")
              /\ ~Contains(Lower(dom[i].style), "visibility:hidden")
        /\ runs >= 2 => dom = prev_dom

-----------------------------------------------------------------------------
(* Claims about the batch run                                              *)

RunEnded == app_pc \in {"done", "stopped", "aborted"}

\* C8: in a batch run over one own page and N competitor pages, a fetch
\* failure of one page is independent of the others: every other page of the
\* batch is still fetched and extracted, the failed page is not retried, and
\* the pages that succeeded are still analysed.
C8_FailureIndependent ==
    (RunEnded /\ n_comp >= 1) =>
        \A p \in Pages :
            outcome[p] = "failed" =>
                /\ attempts[p] = 1
                /\ \A q \in Pages \ {p} : attempts[q] = 1
                /\ \A q \in Pages : outcome[q] = "ok" => q \in analysed

\* C9: consecutive requests are spaced by the minimum interval, counted from
\* the recorded timestamps: a request is sent no earlier than its own
\* timestamp and no earlier than the previous request's timestamp plus
\* min_delay, rate_limit_sleep blocks for at least (min_delay - elapsed) when
\* elapsed < min_delay and not at all otherwise, last_ts is set anew before
\* every fetch whether or not the fetch before it failed, and the first
\* request of a run is not delayed.
C9_RequestSpacing ==
    /\ fetches >= 1 => cur_at >= cur_ts
    /\ fetches >= 2 => /\ cur_ts >= prev_ts + min_delay
                       /\ cur_at >= prev_ts + min_delay
    /\ ts_updates >= 1 => /\ elapsed < min_delay => slept >= min_delay - elapsed
                          /\ elapsed >= min_delay => slept = 0
    /\ ts_updates = fetches + (IF app_pc \in {"fetch_yours", "fetch_comp"} THEN 1 ELSE 0)
    /\ app_pc \in {"fetch_yours", "fetch_comp"} => last_ts = clock
    /\ first_slept = 0

\* after a competitor fetch that failed, the next rate_limit_sleep blocked and
\* the third request of the run went out a positive min_delay later
C9_Witness ==
    /\ fetches = 3
    /\ min_delay > 0
    /\ outcome[1] = "failed"
    /\ slept > 0
    /\ cur_ts >= prev_ts + min_delay

-----------------------------------------------------------------------------
(* Claims about the priority of headings in the sibling walk               *)

\* the siblings that follow h, up to the first one that is an h1-h3 element of
\* the level of h or of a smaller level number
SiblingsBeforeSameOrHigher(d, h) ==
    LET sibs  == {j \in (h + 1)..Len(d) : d[j].parent = d[h].parent}
        stops == {j \in sibs : /\ d[j].tag \in {"h1", "h2", "h3"}
                               /\ LevelOf(d[j].tag) <= LevelOf(d[h].tag)}
    IN  {j \in sibs : \A x \in stops : j < x}

\* C12: the body of a section of level L runs up to the next heading of level
\* <= L: every sibling text longer than 20 characters that follows the
\* heading and comes before the first sibling heading of the same or a
\* smaller level number is part of the body, also when it follows a heading
\* of a greater level number (an h3 after an h2).
C12_BodyUntilSameOrHigher ==
    pc \in AfterSections =>
        LET K == KeptHeadings(dom)
        IN  \A k \in 1..Len(sections) :
                \A y \in SiblingsBeforeSameOrHigher(dom, K[k]) :
                    (/\ dom[y].tag \notin {"h1", "h2", "h3"}
                     /\ Len(clean_text(GetText(dom, y))) > 20)
                    => Contains(sections[k].text, clean_text(GetText(dom, y)))

-----------------------------------------------------------------------------
(* Claims about repeated extractor calls                                   *)

-----------------------------------------------------------------------------
(* Claims about the gap rows                                               *)

AfterStructural == {"structural", "technical", "depth", "returned"}

\* the number of sections of the page that carry the bucket b
SectionsIn(page, b) ==
    Cardinality({i \in 1..Len(page.sections_normalized) :
                    page.sections_normalized[i].bucket = b})

\* the number of sections of the pages ps that carry the bucket b
TotalIn(ps, b) ==
    SumRange([i \in 1..Len(ps) |-> SectionsIn(ps[i], b)], 1, Len(ps))

StructuralRowFor(b) ==
    {i \in 1..Len(rows) : /\ rows[i].gap_type = "Structural"
                          /\ rows[i].gap = "Missing section bucket: " \o b}

\* C13 as stated: no Structural row is emitted for "other", and a Structural
\* row is emitted for a bucket b only when b # "other", the mean of the
\* competitors' counts of b is at least 0.8 and the own page's count of b is 0.
C13_Original ==
    gap_pc \in AfterStructural =>
        /\ StructuralRowFor("other") = {}
        /\ \A i \in 1..Len(rows) :
              rows[i].gap_type = "Structural" =>
                  \E b \in Buckets \ {"other"} :
                      /\ i \in StructuralRowFor(b)
                      /\ 5 * TotalIn(competitors, b) >= 4 * Len(competitors)
                      /\ SectionsIn(yours, b) = 0

\* C13, amended: no Structural row is emitted for "other", however many
\* competitor sections fall in "other" and even when the own page has none;
\* a Structural row is emitted for a bucket b only when b # "other", the mean
\* of the competitors' counts of b rounded to two decimals is at least 0.8
\* and the own page's count of b is 0.
C13_Amended ==
    gap_pc \in AfterStructural =>
        /\ StructuralRowFor("other") = {}
        /\ \A i \in 1..Len(rows) :
              rows[i].gap_type = "Structural" =>
                  \E b \in Buckets \ {"other"} :
                      /\ i \in StructuralRowFor(b)
                      /\ Len(competitors) > 0
                      /\ Round2(TotalIn(competitors, b), Len(competitors)) >= 80
                      /\ SectionsIn(yours, b) = 0

\* the competitors average more than one section in "other", the own page has
\* none, and the only Structural row returned is for another bucket
C13_Witness ==
    /\ gap_pc = "returned"
    /\ Len(competitors) >= 2
    /\ TotalIn(competitors, "other") > Len(competitors)
    /\ SectionsIn(yours, "other") = 0
    /\ \E b \in Buckets \ {"other"} : StructuralRowFor(b) # {}
    /\ \A i \in 1..Len(rows) :
          rows[i].gap_type = "Structural" => i \notin StructuralRowFor("other")

====
